---- MODULE Spec2Model ----
(***************************************************************************)
(* Model of lib/utils/webpack.config.js: the one-time lookup of the site's *)
(* gatsby-node module at load time, and the exported function that builds  *)
(* the webpack configuration of one of the five stages.                    *)
(*                                                                         *)
(* JavaScript strings are TLA+ strings built with \o, so a template string *)
(* is the concatenation the code performs.  A webpack loader string        *)
(* "a!b!c" is kept as the chain <<"a", "b", "c">> of its loaders.  A value *)
(* handed back by the site's hook is a tagged value [kind, val].  An       *)
(* optional argument or environment variable is <<>> when absent and <<v>> *)
(* when it holds v.                                                        *)
(***************************************************************************)
EXTENDS Integers, Sequences, FiniteSets, TLC

VARIABLES
  gatsbyNode,          \* what lies at <cwd>/gatsby-node when the module is loaded
  loaded,              \* the module's top-level code (lines 18-27) has run
  modifyWebpackConfig, \* the module-level variable of line 18
  console,             \* what console.log has printed
  commander,           \* the settings of the command line, handed to every call
  nodeEnv,             \* process.env.NODE_ENV
  siteDB,              \* the site store of ../utils/globals
  pagesDB,             \* the page registry of ../utils/globals, in insertion order
  dirty,               \* nodeEnv, siteDB or pagesDB was written since the last call
  last,                \* the last call of the exported function and its outcome
  repeated             \* the last call had the arguments of the call before it, and
                       \* nothing was written between the two

vars == <<gatsbyNode, loaded, modifyWebpackConfig, console, commander, nodeEnv,
          siteDB, pagesDB, dirty, last, repeated>>

(***************************************************************************)
(* Bounds and input sets                                                   *)
(***************************************************************************)
MaxPages == 2

Components == {"A", "B"}

Hosts == {"localhost"}

Directories == {"/site"}

LinkPrefixes == {"", "/blog"}

NodeEnvs == {<<>>, <<"">>, <<"test">>}

Stages == {"develop", "develop-html", "build-css", "build-html", "build-javascript"}

UnknownStages == {"production", "build-js"}

SuppliedPages ==
  <<[path |-> "/", component |-> "A"],
    [path |-> "/b/", component |-> "B"],
    [path |-> "/c/", component |-> "A"]>>

\* The optional arguments of a call: webpackPort, then pages.
OptionalArgs == {<<>>, <<8000>>, <<8000, SuppliedPages>>}

Programs == [host : Hosts, prefixLinks : BOOLEAN]

HookFunctions == {"returnsNull", "returnsString", "returnsArray",
                  "returnsConfig", "returnsModified"}

\* What require() of <cwd>/gatsby-node can meet.
GatsbyNodeModules ==
  {[file |-> "absent", exports |-> "undefined"],
   [file |-> "missingDependency", exports |-> "undefined"],
   [file |-> "throws", exports |-> "undefined"],
   [file |-> "throwsErrorField", exports |-> "undefined"],
   [file |-> "ok", exports |-> "undefined"]}
  \cup {[file |-> "ok", exports |-> h] : h \in HookFunctions}

Range(s) == {s[i] : i \in DOMAIN s}

(***************************************************************************)
(* Load time: lines 18-27                                                  *)
(***************************************************************************)
\* require(gatsbyNodeConfig): the module's exports, or the error thrown.
\* e.Error is the (non-standard) property line 24 reads; <<>> is undefined.
requireGatsbyNode(m) ==
  CASE m.file = "absent" ->
         [threw |-> TRUE, code |-> "MODULE_NOT_FOUND", Error |-> <<>>]
    [] m.file = "missingDependency" ->
         [threw |-> TRUE, code |-> "MODULE_NOT_FOUND", Error |-> <<>>]
    [] m.file = "throws" ->
         [threw |-> TRUE, code |-> "", Error |-> <<>>]
    [] m.file = "throwsErrorField" ->
         [threw |-> TRUE, code |-> "", Error |-> <<"gatsby-node">>]
    [] OTHER ->
         [threw |-> FALSE, modifyWebpackConfig |-> m.exports]

\* _.includes(collection, value); of undefined it is false.
includes(collection, value) == value \in Range(collection)

\* The condition of line 24.
logsLookupError(e) ==
  e.code # "MODULE_NOT_FOUND" /\ ~includes(e.Error, "gatsby-node")

Load ==
  /\ ~loaded
  /\ loaded' = TRUE
  /\ LET r == requireGatsbyNode(gatsbyNode)
     IN IF r.threw
        THEN /\ modifyWebpackConfig' = "undefined"
             /\ console' = IF logsLookupError(r)
                           THEN Append(console, gatsbyNode.file)
                           ELSE console
        ELSE /\ modifyWebpackConfig' = r.modifyWebpackConfig
             /\ console' = console
  /\ UNCHANGED <<gatsbyNode, commander, nodeEnv, siteDB, pagesDB, dirty, last,
                 repeated>>

(***************************************************************************)
(* Helpers standing for the JavaScript and library calls the code makes    *)
(***************************************************************************)
Ok(v) == [threw |-> FALSE, value |-> v]

\* throw new Error(message)
Throw(message) == [threw |-> TRUE, error |-> [name |-> "Error", message |-> message]]

\* stageError with the switch's default returning an empty value instead of throwing.
stageFallback(stage) == Ok(<<>>)

\* `The state requested ${stage} doesn't exist.`
stageError(stage) == Throw("The state requested " \o stage \o " doesn't exist.")

\* JSON.stringify of a string.
JSONstringify(s) == "\"" \o s \o "\""

\* nodeEnvOr with process.env.NODE_ENV never read.
nodeEnvIgnored(dflt) == dflt

\* process.env.NODE_ENV ? process.env.NODE_ENV : dflt  (unset and "" are falsy)
nodeEnvOr(dflt) == IF nodeEnv # <<>> /\ nodeEnv[1] # "" THEN nodeEnv[1] ELSE dflt

\* siteDB().get(`config`).linkPrefix
linkPrefix == siteDB.config.linkPrefix

\* require.resolve(request)
requireResolve(request) == "/gatsby/node_modules/" \o request

\* __dirname of lib/utils/webpack.config.js
dirname == "/gatsby/lib/utils"

\* _.uniq(array): the first occurrence of each value, in order.
RECURSIVE uniq(_)
uniq(array) ==
  IF array = <<>> THEN <<>>
  ELSE LET init == uniq(SubSeq(array, 1, Len(array) - 1))
           x == array[Len(array)]
       IN IF x \in Range(init) THEN init ELSE Append(init, x)

\* layoutComponentChunkName of ./js-chunk-names
layoutComponentChunkName(component) == "page-component---" \o component

\* babelConfig(program, babelStage) of ./babel-config: react-hmre is wired in
\* for `develop` alone (comment of line 31).
babelConfig(program, babelStage) ==
  [stage |-> babelStage, reactHmre |-> (babelStage = "develop")]

\* ExtractTextPlugin.extract(loaders) and ExtractTextPlugin.extract(before, loaders):
\* the extracting loader, told how many loaders after it serve only when nothing
\* is extracted, followed by those loaders and then by the extracted ones.
ExtractTextPluginExtract(before, loaders) ==
  <<"extract-text-webpack-plugin/loader?omit=" \o ToString(Len(before))
      \o "&extract=true&remove=true">> \o before \o loaders

\* webpack-configurator: new Config(), config.merge(object), config.loader(key, def)
NewConfig == [config |-> <<>>, loaders |-> <<>>]

merge(c, object) == [c EXCEPT !.config = object @@ @]

loader(c, key, def) == [c EXCEPT !.loaders = Append(@, [key |-> key, config |-> def])]

\* _.isObject(value)
isObject(value) == value.kind \in {"object", "array", "function"}

\* `${value}` of a value handed back by the hook
toStr(value) ==
  CASE value.kind = "null" -> "null"
    [] value.kind = "string" -> value.val
    [] value.kind = "array" -> "[object Object]"
    [] OTHER -> "[object Object]"

\* The site's modifyWebpackConfig(config, stage), one per kind of site.
callHook(fn, config, stage) ==
  CASE fn = "returnsNull" -> [kind |-> "null"]
    [] fn = "returnsString" -> [kind |-> "string", val |-> "config"]
    [] fn = "returnsArray" -> [kind |-> "array", val |-> <<config>>]
    [] fn = "returnsModified" ->
         [kind |-> "object", val |-> merge(config, [devtool |-> "cheap-source-map"])]
    [] OTHER -> [kind |-> "object", val |-> config]

(***************************************************************************)
(* The exported function, lines 36-423                                     *)
(***************************************************************************)
DefaultWebpackPort == 1500

\* normalizeStage with the alias left as supplied.
suppliedStageAsIs(suppliedStage) == suppliedStage

\* Line 38.
normalizeStage(suppliedStage) ==
  IF suppliedStage = "develop-html" THEN "develop" ELSE suppliedStage

output(stage, program, directory, webpackPort) ==
  CASE stage = "develop" ->
         Ok([path |-> directory,
             filename |-> "[name].js",
             publicPath |-> "http://" \o program.host \o ":"
                              \o ToString(webpackPort) \o "/"])
    [] stage = "build-css" ->
         Ok([path |-> directory \o "/public",
             filename |-> "bundle-for-css.js",
             publicPath |-> IF program.prefixLinks THEN linkPrefix \o "/" ELSE "/"])
    [] stage = "build-html" ->
         Ok([path |-> directory \o "/public",
             filename |-> "render-page.js",
             libraryTarget |-> "umd"])
    [] stage = "build-javascript" ->
         Ok([filename |-> "[name]-[chunkhash:8].js",
             path |-> directory \o "/public",
             publicPath |-> IF program.prefixLinks THEN linkPrefix \o "/" ELSE "/"])
    [] OTHER -> stageError(stage)

entry(stage, program, directory, webpackPort) ==
  CASE stage = "develop" ->
         Ok([commons |->
               <<requireResolve("webpack-dev-server/client") \o "?http://"
                   \o program.host \o ":" \o ToString(webpackPort) \o "/",
                 requireResolve("webpack/hot/only-dev-server"),
                 requireResolve("react-hot-loader/patch"),
                 directory \o "/.intermediate-representation/app">>])
    [] stage = "build-css" ->
         Ok([main |-> directory \o "/.intermediate-representation/app"])
    [] stage = "build-html" ->
         Ok([main |-> dirname \o "/static-entry"])
    [] stage = "build-javascript" ->
         Ok([app |-> directory \o "/.intermediate-representation/production-app"])
    [] OTHER -> stageError(stage)

\* new webpack.DefinePlugin({...}) of lines 112, 122, 134 and 176.
DefinePlugin(program, dflt) ==
  [plugin |-> "webpack.DefinePlugin",
   args |-> <<[process_env |-> [NODE_ENV |-> JSONstringify(nodeEnvOr(dflt))],
               PREFIX_LINKS |-> program.prefixLinks,
               LINK_PREFIX |-> JSONstringify(linkPrefix)]>>]

Plugin(name, args) == [plugin |-> name, args |-> args]

\* Lines 145-146: the chunk names of the page template components.
componentChunkNames ==
  LET components == uniq([i \in DOMAIN pagesDB |-> pagesDB[i].component])
  IN [i \in DOMAIN components |-> layoutComponentChunkName(components[i])]

\* minChunks with the halving forgotten.
minChunksUnhalved(n) == n

\* Math.floor(n / 2)
minChunks(n) == n \div 2

plugins(stage, program, pages) ==
  CASE stage = "develop" ->
         Ok(<<Plugin("webpack.optimize.OccurenceOrderPlugin", <<>>),
              Plugin("webpack.HotModuleReplacementPlugin", <<>>),
              Plugin("webpack.NoErrorsPlugin", <<>>),
              DefinePlugin(program, "development")>>)
    [] stage = "build-css" ->
         Ok(<<DefinePlugin(program, "production"),
              Plugin("ExtractTextPlugin", <<"styles.css">>)>>)
    [] stage = "build-html" ->
         Ok(<<Plugin("StaticSiteGeneratorPlugin", <<"render-page.js", pages>>),
              DefinePlugin(program, "production"),
              Plugin("ExtractTextPlugin", <<"styles.css">>)>>)
    [] stage = "build-javascript" ->
         LET components == componentChunkNames
         IN Ok(<<Plugin("webpack.IgnorePlugin", <<"^\\./locale$", "moment$">>),
                 Plugin("WebpackMD5Hash", <<>>),
                 Plugin("webpack.optimize.DedupePlugin", <<>>),
                 Plugin("webpack.optimize.OccurenceOrderPlugin", <<>>),
                 Plugin("webpack.optimize.CommonsChunkPlugin",
                        <<[name |-> "commons",
                           chunks |-> <<"app">> \o components,
                           minChunks |-> minChunks(Len(components))]>>),
                 DefinePlugin(program, "production"),
                 Plugin("ExtractTextPlugin", <<"styles.css">>),
                 Plugin("OfflinePlugin",
                        <<[publicPath |-> IF program.prefixLinks
                                          THEN linkPrefix \o "/" ELSE "/",
                           relativePaths |-> FALSE,
                           ServiceWorker |-> [events |-> TRUE]]>>),
                 Plugin("webpack.optimize.UglifyJsPlugin", <<>>),
                 Plugin("StatsWriterPlugin", <<>>)>>)
    [] OTHER -> stageError(stage)

resolve(directory) ==
  [extensions |-> <<"", ".js", ".jsx", ".cjsx", ".coffee">>,
   root |-> <<directory, "/gatsby/lib/isomorphic">>,
   modulesDirectories |-> <<directory \o "/node_modules",
                            directory \o "/node_modules/gatsby/node_modules",
                            "node_modules">>]

\* devtool with a value kept from the call before.
devtoolAfterFirstCall(stage) ==
  IF last.status # "none" THEN "false"
  ELSE CASE stage = "develop" -> "eval"
         [] stage = "build-javascript" -> "source-map"
         [] OTHER -> "false"

devtool(stage) ==
  CASE stage = "develop" -> "eval"
    [] stage = "build-html" -> "false"
    [] stage = "build-javascript" -> "source-map"
    [] OTHER -> "false"

\* Lines 247-284: the loaders every stage gets.
commonLoaders(config, program, babelStage) ==
  LET c1 == loader(config, "cjsx", [test |-> "\\.cjsx$", loaders |-> <<"coffee", "cjsx">>])
      c2 == loader(c1, "js", [test |-> "\\.jsx?$",
                              exclude |-> "(node_modules|bower_components)",
                              loader |-> <<"babel">>,
                              query |-> babelConfig(program, babelStage)])
      c3 == loader(c2, "coffee", [test |-> "\\.coffee$", loader |-> <<"coffee">>])
      c4 == loader(c3, "json", [test |-> "\\.json$", loaders |-> <<"json">>])
      c5 == loader(c4, "images", [test |-> "\\.(jpe?g|png|gif|svg)(\\?.*)?$",
                                  loaders |-> <<"url-loader?limit=10000">>])
      c6 == loader(c5, "woff", [test |-> "\\.woff(2)?(\\?v=[0-9]\\.[0-9]\\.[0-9])?$",
                                loader |-> <<"url-loader?limit=10000&minetype=application/font-woff">>])
      c7 == loader(c6, "ttf", [test |-> "\\.(ttf)(\\?v=[0-9]\\.[0-9]\\.[0-9])?$",
                               loader |-> <<"file-loader">>])
  IN loader(c7, "eot", [test |-> "\\.(eot)(\\?v=[0-9]\\.[0-9]\\.[0-9])?$",
                        loader |-> <<"file-loader">>])

cssModulesConf == "css?modules&minimize&importLoaders=1"

cssModulesConfDev ==
  cssModulesConf \o "&sourceMap&localIdentName=[name]---[local]---[hash:base64:5]"

\* The `css` and `cssModules` loaders handed to config.loader by the four
\* cases of the switch of line 290.
developCss ==
  [test |-> "\\.css$", exclude |-> "\\.module\\.css$",
   loaders |-> <<"style", "css", "postcss">>]

developCssModules ==
  [test |-> "\\.module\\.css$", loaders |-> <<"style", cssModulesConfDev, "postcss">>]

buildCssCss ==
  [test |-> "\\.css$",
   loader |-> ExtractTextPluginExtract(<<>>, <<"css?minimize", "postcss">>),
   exclude |-> "\\.module\\.css$"]

\* buildHtmlCss with the loaders of develop pasted in.
buildHtmlCssInjected ==
  [test |-> "\\.css$", exclude |-> "\\.module\\.css$",
   loaders |-> <<"style", "css", "postcss">>]

buildHtmlCss ==
  [test |-> "\\.css$", exclude |-> "\\.module\\.css$", loader |-> <<"null">>]

buildJavascriptCss ==
  [test |-> "\\.css$", exclude |-> "\\.module\\.css$", loader |-> <<"null">>]

\* Lines 327, 353 and 372 hand the same definition to config.loader.
extractedCssModules ==
  [test |-> "\\.module\\.css$",
   loader |-> ExtractTextPluginExtract(<<"style">>, <<cssModulesConf, "postcss">>)]

\* Lines 290-379: the stylesheet loaders of the stage.
cssLoaders(c, stage) ==
  CASE stage = "develop" ->
         merge(loader(loader(c, "css", developCss), "cssModules", developCssModules),
               [postcss |-> [kind |-> "function",
                             returns |-> <<"postcss-import", "postcss-cssnext",
                                           "postcss-browser-reporter",
                                           "postcss-reporter">>]])
    [] stage = "build-css" ->
         merge(loader(loader(c, "css", buildCssCss), "cssModules", extractedCssModules),
               [postcss |-> [kind |-> "array",
                             returns |-> <<"postcss-import", "postcss-cssnext">>]])
    [] stage = "build-html" ->
         loader(loader(c, "css", buildHtmlCss), "cssModules", extractedCssModules)
    [] stage = "build-javascript" ->
         loader(loader(c, "css", buildJavascriptCss), "cssModules", extractedCssModules)
    [] OTHER -> c

\* function module (config), lines 245-380.
module(config, stage, program, babelStage) ==
  cssLoaders(commonLoaders(config, program, babelStage), stage)

\* The object handed to config.merge at lines 384-409, its values already computed.
mergedObject(stage, directory, e, o, p) ==
  [context |-> directory \o "/pages",
   node |-> [filename |-> TRUE],
   entry |-> e,
   debug |-> TRUE,
   profile |-> (stage = "production"),
   devtool |-> devtool(stage),
   output |-> o,
   resolveLoader |-> [root |-> <<directory \o "/loaders",
                                 "/gatsby/lib/loaders",
                                 directory \o "/node_modules",
                                 directory \o "/node_modules/gatsby/node_modules">>],
   plugins |-> p,
   resolve |-> resolve(directory)]

\* invariant(condition, message): the error it throws when the condition fails.
invariantViolation(value, stage) ==
  [name |-> "Invariant Violation",
   message |-> "You must return an object when modifying the Webpack config. Returned: "
                 \o toStr(value) \o " stage: " \o stage]

\* customize returning module(config) where it should return what the hook
\* handed back.
customizeKeepingDefault(hook, assembled, stage, ran) ==
  IF hook # "undefined"
  THEN LET modifiedWebpackConfig == callHook(hook, assembled, stage)
           call == [config |-> assembled, stage |-> stage,
                    returned |-> modifiedWebpackConfig]
       IN IF isObject(modifiedWebpackConfig)
          THEN [status |-> "returned", value |-> [kind |-> "object", val |-> assembled],
                ran |-> ran \o <<"module", "modifyWebpackConfig", "invariant">>,
                hookCalls |-> <<call>>]
          ELSE [status |-> "threw",
                error |-> invariantViolation(modifiedWebpackConfig, stage),
                ran |-> ran \o <<"module", "modifyWebpackConfig", "invariant">>,
                hookCalls |-> <<call>>]
  ELSE [status |-> "returned", value |-> [kind |-> "object", val |-> assembled],
        ran |-> ran \o <<"module">>, hookCalls |-> <<>>]

\* Lines 411-422: hand the configuration to the site's hook when there is one.
customize(hook, assembled, stage, ran) ==
  IF hook # "undefined"
  THEN LET modifiedWebpackConfig == callHook(hook, assembled, stage)
           call == [config |-> assembled, stage |-> stage,
                    returned |-> modifiedWebpackConfig]
       IN IF isObject(modifiedWebpackConfig)
          THEN [status |-> "returned", value |-> modifiedWebpackConfig,
                ran |-> ran \o <<"module", "modifyWebpackConfig", "invariant">>,
                hookCalls |-> <<call>>]
          ELSE [status |-> "threw",
                error |-> invariantViolation(modifiedWebpackConfig, stage),
                ran |-> ran \o <<"module", "modifyWebpackConfig", "invariant">>,
                hookCalls |-> <<call>>]
  ELSE [status |-> "returned", value |-> [kind |-> "object", val |-> assembled],
        ran |-> ran \o <<"module">>, hookCalls |-> <<>>]

Failed(err, ran) ==
  [status |-> "threw", error |-> err, ran |-> ran, hookCalls |-> <<>>]

\* module.exports = (program, directory, suppliedStage, webpackPort = 1500, pages = [])
\* `ran` lists the inner functions and the hook in the order they were entered:
\* the object literal of line 384 evaluates entry(), devtool(), output(),
\* plugins() and resolve() in that order.
compose(program, directory, suppliedStage, webpackPortArg, pagesArg) ==
  LET webpackPort == IF webpackPortArg = <<>> THEN DefaultWebpackPort
                     ELSE webpackPortArg[1]
      pages == IF pagesArg = <<>> THEN <<>> ELSE pagesArg[1]
      babelStage == suppliedStage
      stage == normalizeStage(suppliedStage)
      e == entry(stage, program, directory, webpackPort)
      o == output(stage, program, directory, webpackPort)
      p == plugins(stage, program, pages)
  IN IF e.threw THEN Failed(e.error, <<"entry">>)
     ELSE IF o.threw THEN Failed(o.error, <<"entry", "devtool", "output">>)
     ELSE IF p.threw THEN Failed(p.error, <<"entry", "devtool", "output", "plugins">>)
     ELSE LET config == merge(NewConfig,
                              mergedObject(stage, directory, e.value, o.value, p.value))
          IN customize(modifyWebpackConfig,
                       module(config, stage, program, babelStage), stage,
                       <<"entry", "devtool", "output", "plugins", "resolve">>)

(***************************************************************************)
(* Actions                                                                 *)
(***************************************************************************)
NoCall == [status |-> "none"]

\* PageRegistries: what pagesDB can hold, oldest page first.
PageRegistries ==
  UNION {[1..n -> [component : Components]] : n \in 0..MaxPages}

\* The process before lib/utils/webpack.config.js is loaded: any site, any
\* environment, any settings of the command line.
Init ==
  /\ gatsbyNode \in GatsbyNodeModules
  /\ loaded = FALSE
  /\ modifyWebpackConfig = "undefined"
  /\ console = <<>>
  /\ commander \in Programs
  /\ nodeEnv \in NodeEnvs
  /\ siteDB \in [config : [linkPrefix : LinkPrefixes]]
  /\ pagesDB \in PageRegistries
  /\ dirty = FALSE
  /\ last = NoCall
  /\ repeated = FALSE

\* A gatsby command calls the exported function, with none, one or both of
\* the optional arguments.
Compose ==
  /\ loaded
  /\ \E directory \in Directories, suppliedStage \in Stages \cup UnknownStages,
        rest \in OptionalArgs :
       LET webpackPort == IF Len(rest) >= 1 THEN <<rest[1]>> ELSE <<>>
           pages == IF Len(rest) >= 2 THEN <<rest[2]>> ELSE <<>>
           args == <<commander, directory, suppliedStage, webpackPort, pages>>
       IN /\ last' = [args |-> args]
                       @@ compose(commander, directory, suppliedStage, webpackPort, pages)
          /\ repeated' = (last.status # "none" /\ ~dirty /\ last.args = args)
  /\ dirty' = FALSE
  /\ UNCHANGED <<gatsbyNode, loaded, modifyWebpackConfig, console, commander,
                 nodeEnv, siteDB, pagesDB>>

Next == Load \/ Compose

Spec == Init /\ [][Next]_vars

(***************************************************************************)
(* The same program in a process whose other modules write process.env,    *)
(* siteDB and pagesDB between two calls.                                   *)
(***************************************************************************)
SetNodeEnv ==
  /\ loaded
  /\ \E v \in NodeEnvs \ {nodeEnv} : nodeEnv' = v
  /\ dirty' = TRUE
  /\ UNCHANGED <<gatsbyNode, loaded, modifyWebpackConfig, console, commander,
                 siteDB, pagesDB, last, repeated>>

SetSiteConfig ==
  /\ loaded
  /\ \E v \in LinkPrefixes \ {linkPrefix} : siteDB' = [config |-> [linkPrefix |-> v]]
  /\ dirty' = TRUE
  /\ UNCHANGED <<gatsbyNode, loaded, modifyWebpackConfig, console, commander,
                 nodeEnv, pagesDB, last, repeated>>

AddPage ==
  /\ loaded
  /\ Len(pagesDB) < MaxPages
  /\ \E c \in Components : pagesDB' = Append(pagesDB, [component |-> c])
  /\ dirty' = TRUE
  /\ UNCHANGED <<gatsbyNode, loaded, modifyWebpackConfig, console, commander,
                 nodeEnv, siteDB, last, repeated>>

ClearPages ==
  /\ loaded
  /\ pagesDB # <<>>
  /\ pagesDB' = <<>>
  /\ dirty' = TRUE
  /\ UNCHANGED <<gatsbyNode, loaded, modifyWebpackConfig, console, commander,
                 nodeEnv, siteDB, last, repeated>>

InitEnv ==
  /\ Init
  /\ gatsbyNode \in {[file |-> "absent", exports |-> "undefined"],
                     [file |-> "ok", exports |-> "returnsModified"]}
  /\ pagesDB = <<>>

NextEnv == Load \/ Compose \/ SetNodeEnv \/ SetSiteConfig \/ AddPage \/ ClearPages

SpecEnv == InitEnv /\ [][NextEnv]_vars

(***************************************************************************)
(* What the properties below read off the last call                        *)
(***************************************************************************)
Called == last.status # "none"

suppliedStageOf == last.args[3]

Recognized == Called /\ suppliedStageOf \in Stages

\* The call got as far as the module rules: the default configuration exists.
Assembled == Called /\ Len(last.ran) >= 6

\* The default configuration: what the hook was handed, or what was returned
\* when there is no hook.
assembledConfig ==
  IF last.hookCalls # <<>> THEN last.hookCalls[1].config ELSE last.value.val

portOf == IF last.args[4] = <<>> THEN "1500" ELSE ToString(last.args[4][1])

loaderKeys(c) == {c.loaders[i].key : i \in DOMAIN c.loaders}

ruleOf(c, key) == c.loaders[CHOOSE i \in DOMAIN c.loaders : c.loaders[i].key = key].config

\* The loaders of a rule, whichever of `loader` and `loaders` it was given as.
chainOf(rule) == IF "loaders" \in DOMAIN rule THEN rule.loaders ELSE rule.loader

pluginsNamed(c, name) == {i \in DOMAIN c.config.plugins : c.config.plugins[i].plugin = name}

fullAssembly == <<"entry", "devtool", "output", "plugins", "resolve", "module">>

(***************************************************************************)
(* C1: a call with a stage token outside the five recognized names throws  *)
(* the stage error out of entry(), the first inner function entered: no    *)
(* other one runs, nothing is returned and the hook is not called.         *)
(***************************************************************************)
C1_UnknownStageFailsFirst ==
  (Called /\ suppliedStageOf \notin Stages) =>
    /\ last.status = "threw"
    /\ last.error = [name |-> "Error",
                     message |-> "The state requested " \o suppliedStageOf
                                   \o " doesn't exist."]
    /\ last.ran = <<"entry">>
    /\ last.hookCalls = <<>>
    /\ "value" \notin DOMAIN last

C1_Witness ==
  /\ Called
  /\ suppliedStageOf \notin Stages
  /\ modifyWebpackConfig # "undefined"
  /\ last.status = "threw"

(***************************************************************************)
(* C2: with a hook present and a recognized stage, the call fails with the *)
(* contract error whenever the hook hands back null, a string or a list.   *)
(***************************************************************************)
C2_NonMappingRejected ==
  (Recognized /\ last.hookCalls # <<>>
     /\ last.hookCalls[1].returned.kind \in {"null", "string", "array"}) =>
    /\ last.status = "threw"
    /\ last.error.name = "Invariant Violation"

(***************************************************************************)
(* C3 as stated: for build-javascript the shared-chunk plugin's minChunks  *)
(* is floor(n/2) and its chunks are the app entry plus one chunk name per  *)
(* distinct component, n counting the distinct components of the pages     *)
(* SUPPLIED to the call.                                                   *)
(***************************************************************************)
suppliedComponents ==
  IF last.args[5] = <<>> THEN {}
  ELSE {last.args[5][1][i].component : i \in DOMAIN last.args[5][1]}

registryComponents == {pagesDB[i].component : i \in DOMAIN pagesDB}

commonsChunk ==
  assembledConfig.config.plugins[
    CHOOSE i \in pluginsNamed(assembledConfig, "webpack.optimize.CommonsChunkPlugin") :
      TRUE].args[1]

sharedChunkSizedBy(comps) ==
  LET n == Cardinality(comps)
      cc == commonsChunk
  IN /\ Cardinality(pluginsNamed(assembledConfig,
                                 "webpack.optimize.CommonsChunkPlugin")) = 1
     /\ 2 * cc.minChunks <= n
     /\ n < 2 * cc.minChunks + 2
     /\ Len(cc.chunks) = n + 1
     /\ cc.chunks[1] = "app"
     /\ {cc.chunks[i] : i \in 2..Len(cc.chunks)}
          = {layoutComponentChunkName(c) : c \in comps}

C3_SuppliedPagesSizeSharedChunk ==
  (Recognized /\ suppliedStageOf = "build-javascript" /\ ~dirty) =>
    (Assembled /\ sharedChunkSizedBy(suppliedComponents))

(***************************************************************************)
(* C3 amended: n counts the distinct components of the pages held by the   *)
(* page registry (pagesDB) when the call is made; the pages supplied to    *)
(* the call are not consulted.                                             *)
(***************************************************************************)
C3_RegistrySizesSharedChunk ==
  (Recognized /\ suppliedStageOf = "build-javascript" /\ ~dirty) =>
    (Assembled /\ sharedChunkSizedBy(registryComponents))

\* Two pages of the registry share a component, and the supplied pages name
\* two components.
C3_Witness ==
  /\ Recognized /\ suppliedStageOf = "build-javascript" /\ ~dirty
  /\ last.status = "returned"
  /\ last.args[5] # <<>>
  /\ Len(pagesDB) >= 2
  /\ Cardinality(registryComponents) < Len(pagesDB)
  /\ Cardinality(registryComponents) # Cardinality(suppliedComponents)

(***************************************************************************)
(* C4: for a recognized stage, with no hook the call returns the fully     *)
(* assembled default configuration; with a hook, the hook is called once,  *)
(* after the module rules were added, with that configuration and the      *)
(* normalized stage, and what it hands back is what the call returns.      *)
(***************************************************************************)
C4_HookGate ==
  Recognized =>
    LET stage == IF suppliedStageOf = "develop-html" THEN "develop" ELSE suppliedStageOf
        c == assembledConfig
    IN /\ Assembled
       /\ {"context", "entry", "output", "plugins", "resolve", "resolveLoader",
           "devtool"} \subseteq DOMAIN c.config
       /\ {"js", "json", "images", "css", "cssModules"} \subseteq loaderKeys(c)
       /\ IF modifyWebpackConfig = "undefined"
          THEN /\ last.status = "returned"
               /\ last.hookCalls = <<>>
               /\ last.ran = fullAssembly
               /\ last.value = [kind |-> "object", val |-> c]
          ELSE /\ Len(last.hookCalls) = 1
               /\ last.ran = fullAssembly \o <<"modifyWebpackConfig", "invariant">>
               /\ last.hookCalls[1].stage = stage
               /\ last.status = "returned" => last.value = last.hookCalls[1].returned
               /\ last.status = "threw" => last.error.name = "Invariant Violation"

C4_Witness ==
  /\ Recognized
  /\ modifyWebpackConfig = "returnsModified"
  /\ last.status = "returned"
  /\ last.value.val.config.devtool = "cheap-source-map"
  /\ last.hookCalls[1].config.config.devtool # "cheap-source-map"

(***************************************************************************)
(* C5: the lookup of the hook fails silently only when the gatsby-node     *)
(* module itself does not exist; any other failure of the lookup prints a  *)
(* diagnostic.                                                             *)
(***************************************************************************)
C5_OnlyAbsenceIsSilent ==
  (loaded /\ gatsbyNode.file # "ok") =>
    (console = <<>> <=> gatsbyNode.file = "absent")

C7_PlainStylesheetRule ==
  Recognized =>
    /\ Assembled
    /\ LET chain == chainOf(ruleOf(assembledConfig, "css"))
       IN CASE suppliedStageOf \in {"develop", "develop-html"} ->
                 "style" \in Range(chain)
            [] suppliedStageOf = "build-css" ->
                 /\ "style" \notin Range(chain)
                 /\ chain[1] = "extract-text-webpack-plugin/loader?omit=0&extract=true&remove=true"
                 /\ Len(chain) > 1
            [] OTHER ->
                 chain = <<"null">>

C7_Witness ==
  /\ Recognized /\ suppliedStageOf = "build-html"
  /\ last.status = "returned"
  /\ chainOf(ruleOf(assembledConfig, "css")) = <<"null">>
  /\ "style" \in Range(chainOf(ruleOf(assembledConfig, "cssModules")))

(***************************************************************************)
(* C8: the public path of the output is "http://<host>:<port>/" for        *)
(* develop, the port defaulting to 1500, and for every other stage "/"     *)
(* when links are not prefixed and the link prefix held by siteDB at the   *)
(* time of the call followed by "/" when they are.                         *)
(***************************************************************************)
C8_PublicPath ==
  (Recognized /\ ~dirty) =>
    /\ Assembled
    /\ LET out == assembledConfig.config.output
       IN /\ "publicPath" \in DOMAIN out
          /\ out.publicPath =
               IF suppliedStageOf \in {"develop", "develop-html"}
               THEN "http://" \o last.args[1].host \o ":" \o portOf \o "/"
               ELSE IF last.args[1].prefixLinks
                    THEN siteDB.config.linkPrefix \o "/"
                    ELSE "/"

(***************************************************************************)
(* C9: for every recognized stage the plugins hold exactly one             *)
(* environment-injection plugin; it carries the link-prefix flag, the link *)
(* prefix of siteDB, and as mode the value of process.env.NODE_ENV when it *)
(* is set (to a non-empty string) and otherwise "development" for develop  *)
(* and develop-html and "production" for the three build stages; all as    *)
(* the source text DefinePlugin substitutes.                               *)
(***************************************************************************)
C9_EnvironmentInjection ==
  (Recognized /\ ~dirty) =>
    /\ Assembled
    /\ LET c == assembledConfig
           defs == pluginsNamed(c, "webpack.DefinePlugin")
           mode == IF nodeEnv \notin {<<>>, <<"">>} THEN nodeEnv[1]
                   ELSE IF suppliedStageOf \in {"develop", "develop-html"}
                        THEN "development" ELSE "production"
       IN /\ Cardinality(defs) = 1
          /\ \A i \in defs :
               c.config.plugins[i].args =
                 <<[process_env |-> [NODE_ENV |-> "\"" \o mode \o "\""],
                    PREFIX_LINKS |-> last.args[1].prefixLinks,
                    LINK_PREFIX |-> "\"" \o siteDB.config.linkPrefix \o "\""]>>

C9_Witness ==
  /\ Recognized /\ ~dirty /\ last.status = "returned"
  /\ suppliedStageOf = "build-css"
  /\ nodeEnv = <<"test">>
  /\ last.args[1].prefixLinks
  /\ siteDB.config.linkPrefix = "/blog"

(***************************************************************************)
(* C10: a call for develop-html yields what the same call for develop      *)
(* yields (entry, output, plugins, resolution, source maps, stylesheet     *)
(* rules, the stage handed to the hook), but for the script-compilation    *)
(* rule, which is built from the stage token as supplied.                  *)
(***************************************************************************)
C10_DevelopHtmlAliasesDevelop ==
  (Called /\ suppliedStageOf = "develop-html" /\ ~dirty) =>
    LET d == compose(last.args[1], last.args[2], "develop", last.args[4], last.args[5])
        dc == IF d.hookCalls # <<>> THEN d.hookCalls[1].config ELSE d.value.val
        hc == assembledConfig
    IN /\ Assembled
       /\ last.status = d.status
       /\ last.ran = d.ran
       /\ Len(last.hookCalls) = Len(d.hookCalls)
       /\ \A i \in DOMAIN last.hookCalls : last.hookCalls[i].stage = "develop"
       /\ hc.config = dc.config
       /\ Len(hc.loaders) = Len(dc.loaders)
       /\ \A i \in DOMAIN hc.loaders :
            IF hc.loaders[i].key = "js"
            THEN /\ hc.loaders[i].config.query.stage = "develop-html"
                 /\ dc.loaders[i].config.query.stage = "develop"
                 /\ [hc.loaders[i] EXCEPT !.config.query = dc.loaders[i].config.query]
                      = dc.loaders[i]
            ELSE hc.loaders[i] = dc.loaders[i]

C10_Witness ==
  /\ Called /\ suppliedStageOf = "develop-html" /\ ~dirty
  /\ last.status = "returned"
  /\ last.hookCalls # <<>>
  /\ last.args[4] # <<>>

====
